---- MODULE Spec2Model ----
(***************************************************************************)
(* Model of TroxlerGaugeSimulator (nuclear_gauge_simulator.py): the two     *)
(* count calculations and the batch generator generate_sample_tests.       *)
(*                                                                         *)
(* Fixed-point units.  Percentages (compaction, moisture, optimum) are in  *)
(* hundredths of a percent (96.5 % = 9650), so that the difference between *)
(* a raw draw and its one-decimal rounding is visible.  Densities are in   *)
(* tenths of a pcf (120.0 = 1200).  Durations are in hundredths of a       *)
(* minute.  Random factors are in thousandths.                             *)
(***************************************************************************)
EXTENDS Integers, Sequences, FiniteSets, TLC

(* ---------------------------------------------------------------------- *)
(* Bounds of the model                                                     *)
(* ---------------------------------------------------------------------- *)
MaxTests == 2

(* ---------------------------------------------------------------------- *)
(* Program constants                                                       *)
(* ---------------------------------------------------------------------- *)
CompMean == 9650
CompLo == 9500
CompHi == 9800
MoistSpread == 200
UniformLo == -20
UniformHi == 20
DefaultIntercept == 4986
DefaultSlope == -346
DefaultMoistureFactor == 100
RefDensityStd == 1570
RefMoistureStd == 670
DensityCountMin == 500
DensityCountMax == 2000
MoistureCountMin == 50
MoistureCountMax == 500
DensityRandLo == 850
DensityRandHi == 1150
MoistureRandLo == 820
MoistureRandHi == 1180

(* ---------------------------------------------------------------------- *)
(* Arithmetic helpers                                                      *)
(* ---------------------------------------------------------------------- *)
Max(a, b) == IF a >= b THEN a ELSE b

Min(a, b) == IF a <= b THEN a ELSE b

Abs(a) == IF a >= 0 THEN a ELSE -a

\* max(lo, min(hi, x)) as written in the source
Clamp(lo, hi, x) == Max(lo, Min(hi, x))

\* int(): truncation toward zero of n/d, d > 0
Trunc(n, d) == IF n >= 0 THEN n \div d ELSE -((-n) \div d)

\* a float product or quotient n/d kept at the precision of the model:
\* nearest, halves away from zero
Nearest(n, d) == IF n >= 0 THEN (2 * n + d) \div (2 * d) ELSE -((2 * (-n) + d) \div (2 * d))

\* round(x, 1) on a value x given in hundredths: the multiples of ten nearest
\* to x.  On an exact tie Python decides by the binary expansion of the
\* double, so both neighbours are possible results.
Round1(x) ==
    LET down == (x \div 10) * 10
        r == x - down
    IN  IF r = 0 THEN {x}
        ELSE IF r < 5 THEN {down}
        ELSE IF r > 5 THEN {down + 10}
        ELSE {down, down + 10}

\* round(n/d, 1) with the result in tenths: integers q with |n/d - q| <= 1/2
RoundDiv(n, d) ==
    LET q == n \div d
        r == n - q * d
    IN  IF 2 * r < d THEN {q}
        ELSE IF 2 * r > d THEN {q + 1}
        ELSE {q, q + 1}

\* variant: the root of the magnitude, which never leaves the reals
SqrtOfMagnitude(t) ==
    CHOOSE r \in 0..(Abs(t) + 1) : r * r <= Abs(t) /\ Abs(t) < (r + 1) * (r + 1)

\* measurement_time ** 0.5 for a duration in hundredths, result in tenths.
\* A negative base gives a Python complex number, which is marked by -1.
Sqrt(t) ==
    IF t < 0 THEN -1
    ELSE CHOOSE r \in 0..(t + 1) : r * r <= t /\ t < (r + 1) * (r + 1)

\* np.sin(x) * 1000 for x in hundredths of a radian (Bhaskara's rational
\* approximation on each half period)
SinMilli(x) ==
    LET y == x % 628
        h == IF y < 314 THEN y ELSE y - 314
        p == h * (314 - h)
        s == (16000 * p) \div (492980 - 4 * p)
    IN  IF y < 314 THEN s ELSE -s

\* np.cos(x) * 1000 for x in hundredths of a radian
CosMilli(x) == SinMilli(x + 157)

(* ---------------------------------------------------------------------- *)
(* Calibration tables built by __init__ (slopes in tenths, factors in      *)
(* hundredths)                                                             *)
(* ---------------------------------------------------------------------- *)
SoilTypes ==
    {"GW (Well-graded gravel)", "GP (Poorly graded gravel)", "GM (Silty gravel)",
     "GC (Clayey gravel)", "SW (Well-graded sand)", "SP (Poorly graded sand)",
     "SM (Silty sand)", "SC (Clayey sand)", "ML (Silt)", "CL (Lean clay)",
     "OL (Organic silt/clay, low plasticity)", "MH (Elastic silt)", "CH (Fat clay)",
     "OH (Organic silt/clay, high plasticity)", "PT (Peat)",
     "Type II (Aggregate Base)", "Asphalt", "Concrete"}

Eq(a, b) == [intercept |-> a, slope |-> b]

SoilDensityEquations ==
    [s \in SoilTypes |->
        CASE s = "GW (Well-graded gravel)" -> Eq(3200, -185)
          [] s = "GP (Poorly graded gravel)" -> Eq(3150, -180)
          [] s = "GM (Silty gravel)" -> Eq(4000, -250)
          [] s = "GC (Clayey gravel)" -> Eq(4100, -260)
          [] s = "SW (Well-graded sand)" -> Eq(3150, -170)
          [] s = "SP (Poorly graded sand)" -> Eq(3100, -165)
          [] s = "SM (Silty sand)" -> Eq(5800, -420)
          [] s = "SC (Clayey sand)" -> Eq(5000, -350)
          [] s = "ML (Silt)" -> Eq(4500, -310)
          [] s = "CL (Lean clay)" -> Eq(4200, -290)
          [] s = "OL (Organic silt/clay, low plasticity)" -> Eq(4600, -320)
          [] s = "MH (Elastic silt)" -> Eq(4400, -300)
          [] s = "CH (Fat clay)" -> Eq(4300, -295)
          [] s = "OH (Organic silt/clay, high plasticity)" -> Eq(4700, -330)
          [] s = "PT (Peat)" -> Eq(5000, -350)
          [] s = "Type II (Aggregate Base)" -> Eq(4000, -250)
          [] s = "Asphalt" -> Eq(3000, -160)
          [] OTHER -> Eq(2800, -150)]

SoilMoistureFactors ==
    [s \in SoilTypes |->
        CASE s \in {"GW (Well-graded gravel)", "GP (Poorly graded gravel)",
                    "SW (Well-graded sand)", "SP (Poorly graded sand)"} -> 100
          [] s \in {"GM (Silty gravel)", "GC (Clayey gravel)",
                    "Type II (Aggregate Base)"} -> 110
          [] s \in {"SM (Silty sand)", "SC (Clayey sand)"} -> 120
          [] s \in {"ML (Silt)", "CL (Lean clay)"} -> 130
          [] s \in {"OL (Organic silt/clay, low plasticity)",
                    "OH (Organic silt/clay, high plasticity)"} -> 140
          [] s \in {"MH (Elastic silt)", "CH (Fat clay)"} -> 135
          [] s = "PT (Peat)" -> 150
          [] s = "Asphalt" -> 90
          [] OTHER -> 80]

(* ---------------------------------------------------------------------- *)
(* calculate_density_count                                                 *)
(* ---------------------------------------------------------------------- *)
\* result of a call: a returned integer or a raised exception
Returned(v) == [raised |-> FALSE, value |-> v]

Raised == [raised |-> TRUE, value |-> 0]

\* variant: a missing soil type falls back on the entry of the default soil
\* type of the signature instead of the regression default
DensityParamsDefaultSoil(equations, soil_type) ==
    IF soil_type \in DOMAIN equations
    THEN equations[soil_type]
    ELSE equations["CL (Lean clay)"]

\* soil_density_equations.get(soil_type, default)
DensityParams(equations, soil_type) ==
    IF soil_type \in DOMAIN equations
    THEN equations[soil_type]
    ELSE [intercept |-> DefaultIntercept, slope |-> DefaultSlope]

\* variant: the per-inch adjustment is applied in backscatter mode as well
DepthFactorBothModes(depth, gauge_depth) ==
    IF depth = "BS" THEN 115 + (gauge_depth - 6) ELSE 100 + (gauge_depth - 6)

\* the depth-mode factor, in hundredths
DepthFactor(depth, gauge_depth) ==
    IF depth = "BS" THEN 115 ELSE 100 + (gauge_depth - 6)

\* base_count before the randomization, in tenths of a count; the duration is
\* non-negative here
DensityBase(params, std, dry_density, depth, measurement_time, gauge_depth) ==
    LET linear == params.intercept * 100 + params.slope * dry_density
        deep == Nearest(linear * DepthFactor(depth, gauge_depth), 100)
        timed == Nearest(deep * Sqrt(measurement_time), 10)
    IN  Nearest(Nearest(timed, 10) * std, RefDensityStd)

\* variant: the factor is applied without being clamped
DensityRandomizationUnclamped(dry_density, normal) ==
    normal + Trunc(SinMilli(dry_density) * 30, 1000)

\* max(0.85, min(1.15, normal + sin(dry_density * 0.1) * 0.03)), in thousandths
DensityRandomization(dry_density, normal) ==
    Clamp(DensityRandLo, DensityRandHi, normal + Trunc(SinMilli(dry_density) * 30, 1000))

\* variant: the lower limit of the final clamp is missing
DensityClampNoFloor(count) == Min(count, DensityCountMax)

\* max(500, min(count, 2000))
DensityClamp(count) == Max(DensityCountMin, Min(count, DensityCountMax))

\* int(base_count * randomization) + jitter, before the final clamp
DensityRaw(base, randomization, jitter) == Trunc(base * randomization, 10000) + jitter

\* the whole method; wet_density is accepted and not read; normal and jitter
\* are the outcomes of np.random.normal and random.choice
calculate_density_count(equations, std, dry_density, wet_density, depth, measurement_time, soil_type, gauge_depth, normal, jitter) ==
    IF Sqrt(measurement_time) < 0
    THEN Raised
    ELSE Returned(DensityClamp(DensityRaw(
             DensityBase(DensityParams(equations, soil_type), std, dry_density,
                         depth, measurement_time, gauge_depth),
             DensityRandomization(dry_density, normal), jitter)))

(* ---------------------------------------------------------------------- *)
(* calculate_moisture_count                                                *)
(* ---------------------------------------------------------------------- *)
\* soil_moisture_factors.get(soil_type, 1.0)
MoistureFactor(factors, soil_type) ==
    IF soil_type \in DOMAIN factors THEN factors[soil_type] ELSE DefaultMoistureFactor

\* base_count before the randomization, in tenths of a count
MoistureBase(factor, std, moisture_content, measurement_time) ==
    LET linear == 5000 + Nearest(95 * moisture_content * factor, 1000)
        timed == Nearest(linear * Sqrt(measurement_time), 10)
    IN  Nearest(Nearest(timed, 10) * std, RefMoistureStd)

\* max(0.82, min(1.18, normal + cos(moisture_content * 0.2) * 0.04))
MoistureRandomization(moisture_content, normal) ==
    Clamp(MoistureRandLo, MoistureRandHi,
          normal + Trunc(CosMilli(moisture_content \div 5) * 40, 1000))

\* max(50, min(count, 500))
MoistureClamp(count) == Max(MoistureCountMin, Min(count, MoistureCountMax))

MoistureRaw(base, randomization, jitter) == Trunc(base * randomization, 10000) + jitter

calculate_moisture_count(factors, std, moisture_content, measurement_time, soil_type, normal, jitter) ==
    IF Sqrt(measurement_time) < 0
    THEN Raised
    ELSE Returned(MoistureClamp(MoistureRaw(
             MoistureBase(MoistureFactor(factors, soil_type), std,
                          moisture_content, measurement_time),
             MoistureRandomization(moisture_content, normal), jitter)))

(* ---------------------------------------------------------------------- *)
(* Inputs                                                                  *)
(* ---------------------------------------------------------------------- *)
\* constructor arguments: model, serial_number, std_density_count, std_moisture_count
Gauges == {<<"3440", "12345", 1570, 670>>, <<"3430", "777", 2000, 400>>}

\* arguments of generate_sample_tests other than num_tests: max_dry_density,
\* optimum_moisture, depth_mode, test_duration, soil_type, gauge_depth
BatchSettings ==
    {<<1200, 800, "DS", 100, "CL (Lean clay)", 8>>,
     <<1300, 804, "BS", 225, "Quarry fines", 4>>,
     <<1200, 806, "DS", -100, "SM (Silty sand)", 6>>}

\* outcomes of np.random.normal(mean, 0.8), as distances from the mean
SampleDraws == {-250, 5, 250}

\* variant: random.uniform(0, 0.2)
RetryOffsetsUpward == 0..UniformHi

\* outcomes of random.uniform(-0.2, 0.2)
RetryOffsets == UniformLo..UniformHi

\* outcomes of np.random.normal(1.0, cv) and random.choice([-1, 0, 1])
Normals == {700, 1000, 1300}

Jitters == {-1, 0, 1}

\* the outcomes used for the counts of a batch record
BatchNormals == {1000}

BatchJitters == {1}

\* arguments of the direct calls
DryDensities == {0, 1158, 1500}

MoistureContents == {0, 800, 3200}

MeasurementTimes == {-100, 0, 100, 400}

DepthModes == {"DS", "BS", "Backscatter"}

WetDensities == {0, 1250, 2500}

GaugeDepths == {4, 6, 12}

SoilInputs == {"CL (Lean clay)", "GW (Well-graded gravel)", "Concrete", "Quarry fines"}

(* ---------------------------------------------------------------------- *)
(* State                                                                   *)
(* ---------------------------------------------------------------------- *)
VARIABLES
    model, serial_number, std_density_count, std_moisture_count,
    soil_density_equations, soil_moisture_factors,
    pc,
    max_dry_density, optimum_moisture, num_tests, depth_mode, test_duration,
    soil_type, gauge_depth,
    compactions, used_values, i, moistures, used_moisture_values, moist, results,
    ret

self == <<model, serial_number, std_density_count, std_moisture_count,
          soil_density_equations, soil_moisture_factors>>

params == <<max_dry_density, optimum_moisture, num_tests, depth_mode, test_duration,
            soil_type, gauge_depth>>

locals == <<compactions, used_values, i, moistures, used_moisture_values, moist, results>>

vars == <<self, pc, params, locals, ret>>

\* the simulator object that every method receives as self
Gauge ==
    [model |-> model,
     serial_number |-> serial_number,
     calibration_date |-> "2024-09-15",
     std_density_count |-> std_density_count,
     std_moisture_count |-> std_moisture_count,
     soil_density_equations |-> soil_density_equations,
     soil_moisture_factors |-> soil_moisture_factors]

\* variant: the density standard is taken from the gauge only for model 3440
StdDensityCountByModel(gauge) ==
    IF gauge.model = "3440" THEN gauge.std_density_count ELSE RefDensityStd

\* self.std_density_count as read by calculate_density_count
StdDensityCount(gauge) == gauge.std_density_count

\* self.std_moisture_count as read by calculate_moisture_count
StdMoistureCount(gauge) == gauge.std_moisture_count

NoCall == [op |-> "none", soil_type |-> "", dry_density |-> 0, moisture_content |-> 0,
           depth |-> "", measurement_time |-> 0, gauge_depth |-> 0,
           normal |-> 0, jitter |-> 0, result |-> Returned(0)]

\* __init__, and no call in progress
Init ==
    /\ \E g \in Gauges :
        /\ model = g[1]
        /\ serial_number = g[2]
        /\ std_density_count = g[3]
        /\ std_moisture_count = g[4]
    /\ soil_density_equations = SoilDensityEquations
    /\ soil_moisture_factors = SoilMoistureFactors
    /\ pc = "idle"
    /\ max_dry_density = 0
    /\ optimum_moisture = 0
    /\ num_tests = 0
    /\ depth_mode = ""
    /\ test_duration = 0
    /\ soil_type = ""
    /\ gauge_depth = 0
    /\ compactions = <<>>
    /\ used_values = {}
    /\ i = 0
    /\ moistures = <<>>
    /\ used_moisture_values = {}
    /\ moist = 0
    /\ results = <<>>
    /\ ret = NoCall

(* ---------------------------------------------------------------------- *)
(* Direct calls of the two count methods                                   *)
(* ---------------------------------------------------------------------- *)
\* variant: the method stores the reference standard back into the gauge
CallDensityRescaling ==
    /\ pc = "idle"
    /\ ret = NoCall
    /\ \E s \in SoilInputs, d \in DryDensities, m \in DepthModes, t \in MeasurementTimes,
          g \in GaugeDepths, n \in Normals, j \in Jitters :
        ret' = [op |-> "density", soil_type |-> s, dry_density |-> d,
                moisture_content |-> 0, depth |-> m, measurement_time |-> t,
                gauge_depth |-> g, normal |-> n, jitter |-> j,
                result |-> calculate_density_count(Gauge.soil_density_equations,
                              StdDensityCount(Gauge), d, 0, m, t, s, g, n, j)]
    /\ std_density_count' = RefDensityStd
    /\ UNCHANGED <<model, serial_number, std_moisture_count, soil_density_equations,
                   soil_moisture_factors, pc, params, locals>>

CallDensity ==
    /\ pc = "idle"
    /\ ret = NoCall
    /\ \E s \in SoilInputs, d \in DryDensities, m \in DepthModes, t \in MeasurementTimes,
          g \in GaugeDepths, n \in Normals, j \in Jitters :
        ret' = [op |-> "density", soil_type |-> s, dry_density |-> d,
                moisture_content |-> 0, depth |-> m, measurement_time |-> t,
                gauge_depth |-> g, normal |-> n, jitter |-> j,
                result |-> calculate_density_count(Gauge.soil_density_equations,
                              StdDensityCount(Gauge), d, 0, m, t, s, g, n, j)]
    /\ UNCHANGED <<self, pc, params, locals>>

CallMoisture ==
    /\ pc = "idle"
    /\ ret = NoCall
    /\ \E s \in SoilInputs, c \in MoistureContents, t \in MeasurementTimes,
          n \in Normals, j \in Jitters :
        ret' = [op |-> "moisture", soil_type |-> s, dry_density |-> 0,
                moisture_content |-> c, depth |-> "", measurement_time |-> t,
                gauge_depth |-> 0, normal |-> n, jitter |-> j,
                result |-> calculate_moisture_count(Gauge.soil_moisture_factors,
                              StdMoistureCount(Gauge), c, t, s, n, j)]
    /\ UNCHANGED <<self, pc, params, locals>>

\* the caller has taken the result of a direct call
Discard ==
    /\ pc = "idle"
    /\ ret # NoCall
    /\ ret' = NoCall
    /\ UNCHANGED <<self, pc, params, locals>>

(* ---------------------------------------------------------------------- *)
(* generate_sample_tests                                                   *)
(* ---------------------------------------------------------------------- *)
\* variant: the draw is rounded without being truncated
SampleValueUntruncated(lo, hi, raw) == Round1(raw)

\* comp = round(max(lo, min(hi, comp)), 1): truncate, then round
SampleValue(lo, hi, raw) == Round1(Clamp(lo, hi, raw))

\* variant: the adjusted value is not truncated to the range
RetryValueUnclamped(lo, hi, v, u) == Round1(v + u)

\* v = max(lo, min(hi, round(v + uniform, 1))): round, then truncate
RetryValue(lo, hi, v, u) == {Clamp(lo, hi, r) : r \in Round1(v + u)}

MoistLo == optimum_moisture - MoistSpread

MoistHi == optimum_moisture + MoistSpread

\* the call: arguments bound, results = [], compactions = []
GenerateSampleTests(tests, settings) ==
    /\ pc = "idle"
    /\ \E n \in tests, b \in settings :
        /\ num_tests' = n
        /\ max_dry_density' = b[1]
        /\ optimum_moisture' = b[2]
        /\ depth_mode' = b[3]
        /\ test_duration' = b[4]
        /\ soil_type' = b[5]
        /\ gauge_depth' = b[6]
        /\ pc' = IF n = 0 THEN "done" ELSE "sample_comp"
    /\ compactions' = <<>>
    /\ used_values' = {}
    /\ i' = 0
    /\ moistures' = <<>>
    /\ used_moisture_values' = {}
    /\ moist' = 0
    /\ results' = <<>>
    /\ ret = NoCall
    /\ UNCHANGED <<self, ret>>

\* one iteration of the first loop: draw, truncate, round, append
SampleCompaction(draws) ==
    /\ pc = "sample_comp"
    /\ \E d \in draws : \E comp \in SampleValue(CompLo, CompHi, CompMean + d) :
        compactions' = Append(compactions, comp)
    /\ IF Len(compactions) + 1 = num_tests
       THEN pc' = "dedup_comp" /\ i' = 1
       ELSE UNCHANGED <<pc, i>>
    /\ UNCHANGED <<self, params, used_values, moistures, used_moisture_values, moist,
                   results, ret>>

\* one iteration of the while loop of the compaction de-duplication
RetryCompaction(offsets) ==
    /\ pc = "dedup_comp"
    /\ compactions[i] \in used_values
    /\ \E u \in offsets : \E v \in RetryValue(CompLo, CompHi, compactions[i], u) :
        compactions' = [compactions EXCEPT ![i] = v]
    /\ UNCHANGED <<self, pc, params, used_values, i, moistures, used_moisture_values,
                   moist, results, ret>>

\* variant: the loop is left after any adjustment, used or not
AcceptCompactionUnchecked ==
    /\ pc = "dedup_comp"
    /\ used_values' = used_values \cup {compactions[i]}
    /\ IF i = num_tests
       THEN pc' = "sample_moist" /\ i' = 0
       ELSE pc' = pc /\ i' = i + 1
    /\ UNCHANGED <<self, params, compactions, moistures, used_moisture_values, moist,
                   results, ret>>

\* the while loop is left: used_values.add(compactions[i]), next i
AcceptCompaction ==
    /\ pc = "dedup_comp"
    /\ compactions[i] \notin used_values
    /\ used_values' = used_values \cup {compactions[i]}
    /\ IF i = num_tests
       THEN pc' = "sample_moist" /\ i' = 0
       ELSE pc' = pc /\ i' = i + 1
    /\ UNCHANGED <<self, params, compactions, moistures, used_moisture_values, moist,
                   results, ret>>

\* the head of one iteration of the moisture loop: draw, truncate, round
SampleMoisture(draws) ==
    /\ pc = "sample_moist"
    /\ \E d \in draws : \E m \in SampleValue(MoistLo, MoistHi, optimum_moisture + d) :
        moist' = m
    /\ pc' = "dedup_moist"
    /\ UNCHANGED <<self, params, compactions, used_values, i, moistures,
                   used_moisture_values, results, ret>>

\* one iteration of the while loop of the moisture de-duplication
RetryMoisture(offsets) ==
    /\ pc = "dedup_moist"
    /\ moist \in used_moisture_values
    /\ \E u \in offsets : \E m \in RetryValue(MoistLo, MoistHi, moist, u) :
        moist' = m
    /\ UNCHANGED <<self, pc, params, compactions, used_values, i, moistures,
                   used_moisture_values, results, ret>>

\* the while loop is left: used_moisture_values.add(moist), moistures.append(moist)
AcceptMoisture ==
    /\ pc = "dedup_moist"
    /\ moist \notin used_moisture_values
    /\ used_moisture_values' = used_moisture_values \cup {moist}
    /\ moistures' = Append(moistures, moist)
    /\ IF Len(moistures) + 1 = num_tests
       THEN pc' = "records" /\ i' = 1
       ELSE pc' = "sample_moist" /\ i' = i
    /\ UNCHANGED <<self, params, compactions, used_values, moist, results, ret>>

\* round((compaction_percentage / 100) * max_dry_density, 1), in tenths
DryDensity(compaction_percentage, mdd) == RoundDiv(compaction_percentage * mdd, 10000)

\* variant: the moisture percentage is used as a fraction of ten
WetDensityTenth(dry_density, moisture_content) ==
    RoundDiv(dry_density * (1000 + moisture_content), 1000)

\* round(dry_density * (1 + moisture_content / 100), 1), in tenths
WetDensity(dry_density, moisture_content) ==
    RoundDiv(dry_density * (10000 + moisture_content), 10000)

\* variant: the records are numbered from zero
TestRecordFromZero(k, dry_density, wet_density, density_count, moisture_count) ==
    [test |-> k - 1,
     density_count |-> density_count,
     moisture_count |-> moisture_count,
     wet_density |-> wet_density,
     dry_density |-> dry_density,
     moisture_lbs |-> wet_density - dry_density,
     moisture_pct |-> moistures[k],
     compaction_pct |-> compactions[k],
     done |-> FALSE]

\* the record of test k built from a dry and a wet density and two counts
TestRecord(k, dry_density, wet_density, density_count, moisture_count) ==
    [test |-> k,
     density_count |-> density_count,
     moisture_count |-> moisture_count,
     wet_density |-> wet_density,
     dry_density |-> dry_density,
     moisture_lbs |-> wet_density - dry_density,
     moisture_pct |-> moistures[k],
     compaction_pct |-> compactions[k],
     done |-> FALSE]

\* one iteration of the last loop, when both count methods return
BuildRecord(normals, jitters) ==
    /\ pc = "records"
    /\ \E dry \in DryDensity(compactions[i], max_dry_density) :
       \E wet \in WetDensity(dry, moistures[i]) :
       \E n1 \in normals, j1 \in jitters, n2 \in normals, j2 \in jitters :
        LET dc == calculate_density_count(Gauge.soil_density_equations,
                      StdDensityCount(Gauge), dry, wet, depth_mode, test_duration,
                      soil_type, gauge_depth, n1, j1)
            mc == calculate_moisture_count(Gauge.soil_moisture_factors,
                      StdMoistureCount(Gauge), moistures[i], test_duration, soil_type,
                      n2, j2)
        IN  /\ ~dc.raised
            /\ ~mc.raised
            /\ results' = Append(results, TestRecord(i, dry, wet, dc.value, mc.value))
    /\ IF i = num_tests
       THEN pc' = "done" /\ i' = i
       ELSE pc' = pc /\ i' = i + 1
    /\ UNCHANGED <<self, params, compactions, used_values, moistures,
                   used_moisture_values, moist, ret>>

\* one iteration of the last loop, when a count method raises: the exception
\* leaves generate_sample_tests and no batch is returned
RecordRaises ==
    /\ pc = "records"
    /\ \E dry \in DryDensity(compactions[i], max_dry_density) :
       \E wet \in WetDensity(dry, moistures[i]) :
        \/ calculate_density_count(Gauge.soil_density_equations, StdDensityCount(Gauge),
               dry, wet, depth_mode, test_duration, soil_type, gauge_depth, 1000, 0).raised
        \/ calculate_moisture_count(Gauge.soil_moisture_factors, StdMoistureCount(Gauge),
               moistures[i], test_duration, soil_type, 1000, 0).raised
    /\ pc' = "raised"
    /\ results' = <<>>
    /\ UNCHANGED <<self, params, compactions, used_values, i, moistures,
                   used_moisture_values, moist, ret>>

\* the caller takes the result (the DataFrame or the exception); the locals
\* of the call are gone
Return ==
    /\ pc \in {"done", "raised"}
    /\ pc' = "idle"
    /\ max_dry_density' = 0
    /\ optimum_moisture' = 0
    /\ num_tests' = 0
    /\ depth_mode' = ""
    /\ test_duration' = 0
    /\ soil_type' = ""
    /\ gauge_depth' = 0
    /\ compactions' = <<>>
    /\ used_values' = {}
    /\ i' = 0
    /\ moistures' = <<>>
    /\ used_moisture_values' = {}
    /\ moist' = 0
    /\ results' = <<>>
    /\ UNCHANGED <<self, ret>>

(* ---------------------------------------------------------------------- *)
(* Specification: any sequence of calls on one simulator                   *)
(* ---------------------------------------------------------------------- *)
Next ==
    \/ CallDensity
    \/ CallMoisture
    \/ Discard
    \/ GenerateSampleTests(0..MaxTests, BatchSettings)
    \/ SampleCompaction(SampleDraws)
    \/ RetryCompaction(RetryOffsets)
    \/ AcceptCompaction
    \/ SampleMoisture(SampleDraws)
    \/ RetryMoisture(RetryOffsets)
    \/ AcceptMoisture
    \/ BuildRecord(BatchNormals, BatchJitters)
    \/ RecordRaises
    \/ Return

Spec == Init /\ [][Next]_vars

(* ---------------------------------------------------------------------- *)
(* Specification: large batches.  The first draws of a batch come in       *)
(* increasing order, one value apart, with at most one value skipped, so   *)
(* that the used sets are nearly full when the last draws are made; the    *)
(* last draws and all retry offsets are free.                              *)
(* ---------------------------------------------------------------------- *)
\* the one-decimal values of [95.0, 98.0]
CompValues == {v \in CompLo..CompHi : v % 10 = 0}

NumCompValues == Cardinality(CompValues)

LargeTests == {20, NumCompValues, NumCompValues + 1}

LargeSettings ==
    {<<1200, 800, "DS", 100, "CL (Lean clay)", 8>>,
     <<1300, 1200, "BS", -100, "Quarry fines", 4>>}

\* the values that the increasing draws may skip, as distances from the
\* lower limit
SkippedAt == {0, 150}

\* outcomes of np.random.normal for the next element of seq
ScriptedDraws(seq, lo, mean) ==
    LET k == Len(seq)
        nxt == IF k = 0 THEN lo ELSE seq[k] + 10
        unskipped == k = 0 \/ seq[k] = lo + 10 * (k - 1)
    IN  IF k + 1 < Min(num_tests, NumCompValues)
        THEN {nxt - mean} \cup
             (IF unskipped /\ (nxt - lo) \in SkippedAt THEN {nxt + 10 - mean} ELSE {})
        ELSE SampleDraws

LargeNext ==
    \/ GenerateSampleTests(LargeTests, LargeSettings)
    \/ SampleCompaction(ScriptedDraws(compactions, CompLo, CompMean))
    \/ RetryCompaction(RetryOffsets)
    \/ AcceptCompaction
    \/ SampleMoisture(ScriptedDraws(moistures, MoistLo, optimum_moisture))
    \/ RetryMoisture(RetryOffsets)
    \/ AcceptMoisture
    \/ BuildRecord(BatchNormals, BatchJitters)
    \/ RecordRaises
    \/ Return

LargeSpec == Init /\ [][LargeNext]_vars

(* ---------------------------------------------------------------------- *)
(* Properties                                                              *)
(* ---------------------------------------------------------------------- *)
Records == 1..Len(results)

\* the values the first sampling of a compaction or a moisture can give
SampledCompactions ==
    UNION {SampleValue(CompLo, CompHi, CompMean + d) : d \in SampleDraws}

SampledMoistures ==
    UNION {SampleValue(MoistLo, MoistHi, optimum_moisture + d) : d \in SampleDraws}

\* C1: in a returned batch the compaction percentages are pairwise distinct
\* and the moisture percentages are pairwise distinct.
C1_DistinctInBatch ==
    pc = "done" =>
        \A a \in Records, b \in Records :
            a # b => /\ results[a].compaction_pct # results[b].compaction_pct
                     /\ results[a].moisture_pct # results[b].moisture_pct

\* a returned batch of two or more records with a compaction value and a
\* moisture value that only the retry loops can have produced
C1_Witness ==
    /\ pc = "done"
    /\ Len(results) >= 2
    /\ \E a \in Records : results[a].compaction_pct \notin SampledCompactions
    /\ \E b \in Records : results[b].moisture_pct \notin SampledMoistures

\* C2: with a non-negative measurement time both count methods return an
\* integer inside their clamp range, for every soil type, for every outcome
\* of the perturbation and of the jitter; so do the counts of every record.
C2_CountsInRange ==
    /\ (ret.op = "density" /\ ret.measurement_time >= 0) =>
            /\ ~ret.result.raised
            /\ ret.result.value \in DensityCountMin..DensityCountMax
    /\ (ret.op = "moisture" /\ ret.measurement_time >= 0) =>
            /\ ~ret.result.raised
            /\ ret.result.value \in MoistureCountMin..MoistureCountMax
    /\ \A k \in Records :
            /\ results[k].density_count \in DensityCountMin..DensityCountMax
            /\ results[k].moisture_count \in MoistureCountMin..MoistureCountMax

\* a density call whose unclamped count is below the range and comes back as 500
C2_Witness ==
    /\ ret.op = "density"
    /\ ret.measurement_time > 0
    /\ ret.soil_type \notin SoilTypes
    /\ ret.dry_density = 1500
    /\ ret.result = Returned(DensityCountMin)

\* C3 (as stated): every moisture percentage of a batch lies within 2.0 of
\* the optimum moisture, whatever optimum the caller passes.
C3_MoistureInRange ==
    \A k \in Records :
        /\ results[k].moisture_pct >= MoistLo
        /\ results[k].moisture_pct <= MoistHi

\* C4: every compaction percentage lies in [95.0, 98.0] and is a multiple of
\* 0.1, in the list while it is being de-duplicated and in the records.
C4_CompactionInRange ==
    /\ \A k \in 1..Len(compactions) :
            /\ compactions[k] \in CompLo..CompHi
            /\ compactions[k] % 10 = 0
    /\ \A k \in Records :
            /\ results[k].compaction_pct \in CompLo..CompHi
            /\ results[k].compaction_pct % 10 = 0

\* a returned batch holding the lower limit next to a value rewritten by the
\* retry loop
C4_Witness ==
    /\ pc = "done"
    /\ \E a \in Records : results[a].compaction_pct = CompLo
    /\ \E b \in Records :
            /\ results[b].compaction_pct \notin SampledCompactions
            /\ results[b].compaction_pct > CompLo

\* C7: in every record the dry density is the record's compaction percentage
\* of the maximum dry density to one decimal, the wet density is the dry
\* density times (1 + the record's moisture percentage / 100) to one decimal,
\* and the moisture mass is exactly their difference.
C7_DensitiesConsistent ==
    \A k \in Records :
        LET r == results[k]
        IN  /\ 2 * Abs(r.dry_density * 10000 - r.compaction_pct * max_dry_density) <= 10000
            /\ 2 * Abs(r.wet_density * 10000 - r.dry_density * (10000 + r.moisture_pct)) <= 10000
            /\ r.moisture_lbs = r.wet_density - r.dry_density

\* a record built from a moisture value rewritten by the retry loop
C7_Witness ==
    \E k \in Records :
        /\ results[k].moisture_pct \notin SampledMoistures
        /\ results[k].moisture_lbs > 0
        /\ results[k].dry_density > 0

\* C8 (as stated): no call fails, whatever the duration.
C8_NeverRaises ==
    /\ pc # "raised"
    /\ ~ret.result.raised

\* C8 (amended): a call fails exactly when the duration is negative; a direct
\* call with a negative duration raises, a batch with a negative duration
\* raises at its first record, and every count that is returned is in range.
C8_RaisesOnlyOnNegative ==
    /\ ret.op \in {"density", "moisture"} =>
            (ret.result.raised <=> ret.measurement_time < 0)
    /\ ret.op = "density" /\ ~ret.result.raised =>
            ret.result.value \in DensityCountMin..DensityCountMax
    /\ ret.op = "moisture" /\ ~ret.result.raised =>
            ret.result.value \in MoistureCountMin..MoistureCountMax
    /\ pc = "raised" => test_duration < 0 /\ i = 1
    /\ test_duration < 0 => results = <<>>
    /\ (pc = "done" /\ test_duration < 0) => num_tests = 0

\* a batch with a negative duration has raised
C8_Witness ==
    /\ pc = "raised"
    /\ test_duration < 0
    /\ Len(moistures) = num_tests

\* C9: for a soil type missing from the tables the count methods return what
\* they return, on the same inputs and draws, for a table entry with
\* intercept 4986, slope -34.6 and moisture factor 1.0; a batch for such a
\* soil type does not fail and is complete when returned.
C9_UnknownSoilIsDefault ==
    /\ (ret.op = "density" /\ ret.soil_type \notin DOMAIN soil_density_equations) =>
            ret.result =
                calculate_density_count(
                    [s \in {ret.soil_type} |-> [intercept |-> 4986, slope |-> -346]],
                    std_density_count, ret.dry_density, 0, ret.depth,
                    ret.measurement_time, ret.soil_type, ret.gauge_depth,
                    ret.normal, ret.jitter)
    /\ (ret.op = "moisture" /\ ret.soil_type \notin DOMAIN soil_moisture_factors) =>
            ret.result =
                calculate_moisture_count(
                    [s \in {ret.soil_type} |-> 100],
                    std_moisture_count, ret.moisture_content, ret.measurement_time,
                    ret.soil_type, ret.normal, ret.jitter)
    /\ (soil_type \notin DOMAIN soil_density_equations /\ test_duration >= 0) =>
            /\ pc # "raised"
            /\ pc = "done" => Len(results) = num_tests

\* a density call for a soil type outside the table whose count is strictly
\* inside the clamp range
C9_Witness ==
    /\ ret.op = "density"
    /\ ret.soil_type \notin DOMAIN soil_density_equations
    /\ ~ret.result.raised
    /\ ret.result.value > DensityCountMin
    /\ ret.result.value < DensityCountMax

\* C10: a returned batch has num_tests records; record k carries Test # k,
\* Done = False, the k-th de-duplicated compaction and the k-th
\* de-duplicated moisture.
C10_RecordsInOrder ==
    pc = "done" =>
        /\ Len(results) = num_tests
        /\ \A k \in Records :
            /\ results[k].test = k
            /\ results[k].done = FALSE
            /\ results[k].compaction_pct = compactions[k]
            /\ results[k].moisture_pct = moistures[k]

\* a returned batch whose values are not in increasing order
C10_Witness ==
    /\ pc = "done"
    /\ num_tests >= 2
    /\ Len(results) = num_tests
    /\ results[2].compaction_pct < results[1].compaction_pct
    /\ results[2].moisture_pct > results[1].moisture_pct

\* the values one pass of a retry loop can give from v
RetrySuccessors(lo, hi, v) == UNION {RetryValue(lo, hi, v, u) : u \in RetryOffsets}

\* the values a retry loop can come to from the values of S while it passes
\* through used values only
RECURSIVE RetryReach(_, _, _, _)
RetryReach(lo, hi, used, S) ==
    LET T == S \cup UNION {RetrySuccessors(lo, hi, v) : v \in S \cap used}
    IN  IF T = S THEN S ELSE RetryReach(lo, hi, used, T)

\* C5: in a batch of at most 31 tests with an optimum moisture that is a
\* multiple of 0.1, from every state of either de-duplication loop some
\* sequence of offsets leads to an unused value, that is, out of the loop.
\* Every offset has a positive probability and the values are finitely many,
\* so both loops are left with probability one.
C5_ExitReachable ==
    (num_tests <= NumCompValues /\ optimum_moisture % 10 = 0) =>
        /\ pc = "dedup_comp" =>
                RetryReach(CompLo, CompHi, used_values, {compactions[i]}) \ used_values # {}
        /\ pc = "dedup_moist" =>
                RetryReach(MoistLo, MoistHi, used_moisture_values, {moist})
                    \ used_moisture_values # {}

\* the compaction retry loop running at the last index of a batch of 31 with
\* 30 of the 31 values used
C5_Witness ==
    /\ pc = "dedup_comp"
    /\ num_tests = NumCompValues
    /\ i = num_tests
    /\ Cardinality(used_values) = NumCompValues - 1
    /\ compactions[i] \in used_values
    /\ CompHi \notin used_values
    /\ compactions[i] = CompLo

\* C6: a batch of more than 31 tests never returns and never raises: the
\* call stays in the compaction loops, and once all 31 values are used it
\* stays in the retry loop, whose value is always a used one.
C6_NeverReturns ==
    num_tests > NumCompValues =>
        /\ pc \in {"sample_comp", "dedup_comp"}
        /\ results = <<>>
        /\ moistures = <<>>
        /\ used_values \subseteq CompValues
        /\ pc = "dedup_comp" => i <= NumCompValues + 1
        /\ (pc = "dedup_comp" /\ i = NumCompValues + 1) =>
                /\ used_values = CompValues
                /\ compactions[i] \in used_values

\* the retry loop running with all 31 values used
C6_Witness ==
    /\ pc = "dedup_comp"
    /\ num_tests > NumCompValues
    /\ used_values = CompValues
    /\ compactions[i] \in used_values
    /\ compactions[i] # compactions[i - 1]

\* labels of other gauges: model and serial_number
GaugeLabels == {<<"3440", "12345">>, <<"3430", "777">>, <<"3450", "A-0017">>}

\* the simulator with another model label and another serial label
Relabelled(label) == [Gauge EXCEPT !.model = label[1], !.serial_number = label[2]]

\* the simulator with other standard counts
Restandardised(sd, sm) == [Gauge EXCEPT !.std_density_count = sd, !.std_moisture_count = sm]

\* the density count of a call recorded in ret, made on the simulator g
DensityCountOn(g) ==
    calculate_density_count(g.soil_density_equations, StdDensityCount(g), ret.dry_density,
        0, ret.depth, ret.measurement_time, ret.soil_type, ret.gauge_depth,
        ret.normal, ret.jitter)

\* the moisture count of a call recorded in ret, made on the simulator g
MoistureCountOn(g) ==
    calculate_moisture_count(g.soil_moisture_factors, StdMoistureCount(g),
        ret.moisture_content, ret.measurement_time, ret.soil_type, ret.normal, ret.jitter)

\* the two counts of record r, made on the simulator g with the draws n and j
RecordCountsOn(g, r, n, j) ==
    <<calculate_density_count(g.soil_density_equations, StdDensityCount(g),
          r.dry_density, r.wet_density, depth_mode, test_duration, soil_type,
          gauge_depth, n, j),
      calculate_moisture_count(g.soil_moisture_factors, StdMoistureCount(g),
          r.moisture_pct, test_duration, soil_type, n, j)>>

\* C11: a simulator that differs from this one only in its model label and
\* its serial label returns, on the same arguments and the same draws, the
\* count this one returned, for direct calls and for the records of a batch.
C11_LabelsDoNotMatter ==
    \A label \in GaugeLabels :
        LET g == Relabelled(label)
        IN  /\ ret.op = "density" => ret.result = DensityCountOn(g)
            /\ ret.op = "moisture" => ret.result = MoistureCountOn(g)
            /\ \A k \in Records : \E n \in BatchNormals, j \in BatchJitters :
                    RecordCountsOn(g, results[k], n, j) =
                        <<Returned(results[k].density_count),
                          Returned(results[k].moisture_count)>>

\* a density count strictly inside the clamp range, returned by the gauge
\* 3430, that another density standard would change
C11_Witness ==
    /\ ret.op = "density"
    /\ model = "3430"
    /\ ~ret.result.raised
    /\ ret.result.value > DensityCountMin
    /\ ret.result.value < DensityCountMax
    /\ DensityCountOn(Restandardised(RefDensityStd, RefMoistureStd)) # ret.result
    /\ DensityCountOn(Relabelled(<<"3450", "A-0017">>)) = ret.result

\* the fields that the calculations read
calibration == <<std_density_count, std_moisture_count, soil_density_equations,
                 soil_moisture_factors>>

\* C12: no step of any call changes std_density_count, std_moisture_count,
\* soil_density_equations or soil_moisture_factors, so after any sequence of
\* calls they have the values given at construction.
C12_CalibrationUnchanged == [][calibration' = calibration]_vars

\* a batch has been returned, each record made by one call of each count
\* method, and the tables are those built by __init__
C12_Witness ==
    /\ pc = "done"
    /\ Len(results) >= 2
    /\ soil_density_equations = SoilDensityEquations
    /\ soil_moisture_factors = SoilMoistureFactors
    /\ \E g \in Gauges : std_density_count = g[3] /\ std_moisture_count = g[4]

\* the density count of the call recorded in ret with another gauge depth,
\* another depth mode and another wet density
DensityCountWith(mode, inches, wet) ==
    calculate_density_count(Gauge.soil_density_equations, StdDensityCount(Gauge),
        ret.dry_density, wet, mode, ret.measurement_time, ret.soil_type,
        inches, ret.normal, ret.jitter)

\* the count that the claimed depth factor gives for the call recorded in ret
\* (hundredths: 1.15 in backscatter, 1 + (gauge_depth - 6) * 0.01 otherwise)
ClaimedDepthCount ==
    LET p == DensityParams(soil_density_equations, ret.soil_type)
        factor == IF ret.depth = "BS" THEN 115 ELSE 100 + (ret.gauge_depth - 6)
        linear == p.intercept * 100 + p.slope * ret.dry_density
        deep == Nearest(linear * factor, 100)
        timed == Nearest(deep * Sqrt(ret.measurement_time), 10)
        base == Nearest(Nearest(timed, 10) * std_density_count, 1570)
        count == Trunc(base * DensityRandomization(ret.dry_density, ret.normal), 10000)
    IN  Max(500, Min(count + ret.jitter, 2000))

\* C13: the density count is the one given by the factor 1.15 in mode "BS"
\* and by 1 + (gauge_depth - 6) * 0.01 in every other mode; in mode "BS" it
\* is the same for every gauge depth; at gauge depth 6 every other mode
\* leaves the base count as it is; the wet density never changes it.
C13_DepthAdjustment ==
    (ret.op = "density" /\ ~ret.result.raised) =>
        /\ ret.result.value = ClaimedDepthCount
        /\ ret.depth = "BS" =>
                \A g \in GaugeDepths : DensityCountWith("BS", g, 0) = ret.result
        /\ (ret.depth # "BS" /\ ret.gauge_depth = 6) =>
                DepthFactor(ret.depth, ret.gauge_depth) = 100
        /\ ret.depth # "BS" =>
                DensityCountWith("DS", ret.gauge_depth, 0) = ret.result
        /\ \A w \in WetDensities :
                DensityCountWith(ret.depth, ret.gauge_depth, w) = ret.result

\* a backscatter call at gauge depth 12 whose count lies strictly inside the
\* clamp range and differs from the direct-transmission count
C13_Witness ==
    /\ ret.op = "density"
    /\ ret.depth = "BS"
    /\ ret.gauge_depth = 12
    /\ ~ret.result.raised
    /\ ret.result.value > DensityCountMin
    /\ ret.result.value < DensityCountMax
    /\ DensityCountWith("Backscatter", 12, 0) # ret.result

\* the base counts B, in tenths, of the call recorded in ret
RetDensityBase ==
    DensityBase(DensityParams(soil_density_equations, ret.soil_type), std_density_count,
        ret.dry_density, ret.depth, ret.measurement_time, ret.gauge_depth)

RetMoistureBase ==
    MoistureBase(MoistureFactor(soil_moisture_factors, ret.soil_type), std_moisture_count,
        ret.moisture_content, ret.measurement_time)

\* C14: for a positive base count B the density count is the clamp to
\* [500, 2000] of an integer between trunc(0.85 B) - 1 and trunc(1.15 B) + 1,
\* and the moisture count is the clamp to [50, 500] of an integer between
\* trunc(0.82 B) - 1 and trunc(1.18 B) + 1, for every draw and every jitter.
C14_PerturbationBounds ==
    /\ (ret.op = "density" /\ ~ret.result.raised /\ RetDensityBase > 0) =>
            \E v \in (Trunc(RetDensityBase * 85, 1000) - 1)..
                     (Trunc(RetDensityBase * 115, 1000) + 1) :
                ret.result.value = Max(500, Min(v, 2000))
    /\ (ret.op = "moisture" /\ ~ret.result.raised /\ RetMoistureBase > 0) =>
            \E v \in (Trunc(RetMoistureBase * 82, 1000) - 1)..
                     (Trunc(RetMoistureBase * 118, 1000) + 1) :
                ret.result.value = Max(50, Min(v, 500))

\* a density call whose draw is far above 1.15 and whose count, strictly
\* inside the clamp range, is the upper limit trunc(1.15 B) + 1
C14_Witness ==
    /\ ret.op = "density"
    /\ ~ret.result.raised
    /\ ret.normal = 1300
    /\ ret.jitter = 1
    /\ RetDensityBase > 0
    /\ ret.result.value < DensityCountMax
    /\ ret.result.value > DensityCountMin
    /\ ret.result.value = Trunc(RetDensityBase * 115, 1000) + 1

====
